---- MODULE Spec2Model ----
(***************************************************************************)
(* Parserix (Docparse.mvp): the usage store (src/db.py), the field         *)
(* extraction service (src/extraction/extractor.py) and the batch loop of  *)
(* the Streamlit script (src/app.py), as one state machine.                *)
(*                                                                         *)
(*   SpecDb   sessions calling increment_upload_count, one store round     *)
(*            trip per step, interleaved                                   *)
(*   SpecSeq  increment_upload_count without concurrency: k calls by 1     *)
(*            beside one call by k                                         *)
(*   SpecExtract  extract_invoice_fields on the replies of the model       *)
(*   Spec     runs of the script: admission, the batch loop, the store     *)
(***************************************************************************)
EXTENDS Integers, Sequences, FiniteSets, TLC

VARIABLES
    usage,        \* the "usage" table: a sequence of rows
    emailUnique,  \* whether the table's schema makes user_email unique
    usage0,       \* history: the table at the start
    inc,          \* per session: the frame of increment_upload_count
    incSum,       \* history: per identity, the sum of 'count' of the calls that returned
    calls,        \* per session: calls of increment_upload_count started by the harness
    seq,          \* SpecSeq: the two sequential runs that are compared
    ext,          \* SpecExtract: one call of extract_invoice_fields, input and outcome
    env,          \* the process environment: the Groq key, the OCR installation
    scope,        \* the sessions that run and the inputs they draw from
    sess,         \* per session: the variables of one run of the script (src/app.py)
    events        \* history, per session: what the current run has done so far

vars == <<usage, emailUnique, usage0, inc, incSum, calls, seq, ext, env, scope, sess, events>>

fixedVars == <<emailUnique, usage0, env, scope>>
harnessVars == <<calls, seq, ext>>

(***************************************************************************)
(* Bounds                                                                  *)
(***************************************************************************)
NumSessions == 2
MaxCalls == 2
MaxCount == 2
MaxInitCount == 2
MaxK == 3
MaxMissing == 1
MaxBatch == 2

Sessions == 1..NumSessions

(***************************************************************************)
(* Identities.  An email is a sequence of characters; the store's key is   *)
(* email.lower().strip().                                                  *)
(***************************************************************************)
RawEmails == { <<"a">>, <<"A", " ">>, <<" ", "b">> }

LowerChar(c) ==
    CASE c = "A" -> "a"
      [] c = "B" -> "b"
      [] OTHER -> c

Lower(email) == [i \in 1..Len(email) |-> LowerChar(email[i])]

RECURSIVE LStrip(_)
LStrip(email) ==
    IF email # <<>> /\ Head(email) = " " THEN LStrip(Tail(email)) ELSE email

RECURSIVE RStrip(_)
RStrip(email) ==
    IF email # <<>> /\ email[Len(email)] = " "
    THEN RStrip(SubSeq(email, 1, Len(email) - 1))
    ELSE email

Strip(email) == RStrip(LStrip(email))

Normalize(email) == Strip(Lower(email))

Identities == { Normalize(e) : e \in RawEmails }

(***************************************************************************)
(* The usage table (src/db.py)                                             *)
(***************************************************************************)
Row(email, count) == [user_email |-> email, upload_count |-> count]

\* sb.table("usage").select(...).eq("user_email", email).execute().data
SelectRows(table, email) == SelectSeq(table, LAMBDA r : r.user_email = email)

GetUploadCount(table, email) ==
    LET data == SelectRows(table, Normalize(email))
    IN  IF data # <<>> THEN data[1].upload_count ELSE 0

RowExists(table, email) == SelectRows(table, email) # <<>>

InsertRowOne(table, email, count) == Append(table, Row(email, 1))

InsertRow(table, email, count) == Append(table, Row(email, count))

UpdateRows(table, email, new_count) ==
    [i \in 1..Len(table) |->
        IF table[i].user_email = email
        THEN [table[i] EXCEPT !.upload_count = new_count]
        ELSE table[i]]

NewCount(current, count) == current + count

\* increment_upload_count run with no other session between its round trips
IncrementUploadCount(table, email, count) ==
    LET e == Normalize(email)
        current == GetUploadCount(table, e)
    IN  IF current = 0 /\ ~RowExists(table, e)
        THEN [table |-> InsertRow(table, e, count), ret |-> count]
        ELSE [table |-> UpdateRows(table, e, NewCount(current, count)),
              ret |-> NewCount(current, count)]

\* tables the program can be started on: per identity no row, or one row
InitTables ==
    LET Opt == {<<>>} \cup { <<Row(<<"a">>, c)>> : c \in 0..MaxInitCount }
        OptB == {<<>>} \cup { <<Row(<<"b">>, c)>> : c \in {0, MaxInitCount} }
    IN  { x \o y : x \in Opt, y \in OptB }

NoSeq == [email |-> <<>>, k |-> 0, tableA |-> <<>>, doneA |-> 0, retA |-> 0,
          tableB |-> <<>>, doneB |-> 0, retB |-> 0]

(***************************************************************************)
(* JSON values.  A value is [t, v, m]: its type, its number (a float in    *)
(* tenths, a numeric string by the integer it spells) and, for an object,  *)
(* its mapping.                                                            *)
(***************************************************************************)
NoMap == [k \in {} |-> 0]

JNull == [t |-> "null", v |-> 0, m |-> NoMap]
JInt(n) == [t |-> "int", v |-> n, m |-> NoMap]
JFloat(tenths) == [t |-> "float", v |-> tenths, m |-> NoMap]
JNumStr(n) == [t |-> "numstr", v |-> n, m |-> NoMap]
JText(id) == [t |-> "text", v |-> id, m |-> NoMap]
JMap(m) == [t |-> "map", v |-> 0, m |-> m]

(***************************************************************************)
(* extract_invoice_fields (src/extraction/extractor.py)                    *)
(***************************************************************************)
EXPECTED_FIELDS ==
    <<"vendor_name", "vendor_gstin", "invoice_number", "invoice_date",
      "total_taxable_value", "total_gst_amount", "grand_total">>

ExpectedSet == { EXPECTED_FIELDS[i] : i \in 1..Len(EXPECTED_FIELDS) }

\* lines 103-105
BackfillFieldsNone(result) == result

BackfillFields(result) ==
    [k \in DOMAIN result \cup ExpectedSet |->
        IF k \in DOMAIN result THEN result[k] ELSE JNull]

\* lines 108-109
EnsureConfidence(result) ==
    IF "confidence" \notin DOMAIN result \/ result["confidence"].t # "map"
    THEN [k \in DOMAIN result \cup {"confidence"} |->
             IF k = "confidence" THEN JMap(NoMap) ELSE result[k]]
    ELSE result

\* lines 110-112
BackfillConfidence(result) ==
    LET conf == result["confidence"].m
    IN  [result EXCEPT !["confidence"] =
            JMap([k \in DOMAIN conf \cup ExpectedSet |->
                     IF k \in DOMAIN conf THEN conf[k] ELSE JInt(0)])]

\* lines 100-114, after json.loads
RepairRecord(result) == BackfillConfidence(EnsureConfidence(BackfillFields(result)))

\* line 79: key = api_key or os.environ.get("GROQ_API_KEY")
KeyStates == {"none", "invalid", "valid"}

ResolveKey(api_key, env_key) == IF api_key # "none" THEN api_key ELSE env_key

Outcome(kind, why, record) == [kind |-> kind, why |-> why, record |-> record]

\* lines 118-126: msg is the set of the searched substrings that str(e).lower() holds
ClassifyError(msg) ==
    IF "authentication" \in msg \/ "api key" \in msg \/ "401" \in msg
    THEN Outcome("ValueError", "invalid_key", NoMap)
    ELSE IF "rate" \in msg /\ "limit" \in msg
         THEN Outcome("RuntimeError", "rate_limit", NoMap)
         ELSE Outcome("RuntimeError", "api_failed", NoMap)

\* a reply of the provider: a JSON object, content that does not parse, or an error
JsonReply(body) == [kind |-> "json", body |-> body, msg |-> {}]
BadJsonReply == [kind |-> "badjson", body |-> NoMap, msg |-> {}]
ErrorReply(msg) == [kind |-> "error", body |-> NoMap, msg |-> msg]

ExtractInvoiceFields(api_key, env_key, reply) ==
    IF ResolveKey(api_key, env_key) = "none"
    THEN Outcome("ValueError", "missing_key", NoMap)
    ELSE CASE reply.kind = "error" -> ClassifyError(reply.msg)
           [] reply.kind = "badjson" -> Outcome("RuntimeError", "bad_json", NoMap)
           [] OTHER -> Outcome("ok", "", RepairRecord(reply.body))

(***************************************************************************)
(* The replies the model may give                                          *)
(***************************************************************************)
FieldSample(k) ==
    IF k \in {"total_taxable_value", "total_gst_amount", "grand_total"}
    THEN JInt(11800)
    ELSE JText(1)

ConfVals ==
    { JInt(0), JInt(85), JInt(150), JInt(-5), JFloat(855), JNumStr(85), JText(2), JNull }

\* the sets of expected keys a reply may omit: a few, or all of them
MissingSets == { M \in SUBSET ExpectedSet : Cardinality(M) <= MaxMissing } \cup {ExpectedSet}

ConfMaps ==
    { [k \in (ExpectedSet \ M) \cup X |-> c] :
        M \in MissingSets, X \in {{}, {"notes"}}, c \in ConfVals }

\* what "confidence" may hold when it is no mapping
ConfScalars == { JNull, JInt(90), JText(2) }

Body(M, X, hasConf, conf) ==
    [k \in (ExpectedSet \ M) \cup X \cup (IF hasConf THEN {"confidence"} ELSE {}) |->
        IF k = "confidence" THEN conf
        ELSE IF k \in ExpectedSet THEN FieldSample(k) ELSE JText(3)]

Bodies ==
    { Body(M, X, FALSE, JNull) : M \in MissingSets, X \in {{}, {"source_file"}} }
    \cup { Body(M, X, TRUE, c) :
             M \in MissingSets, X \in {{}, {"source_file"}},
             c \in ConfScalars \cup { JMap(m) : m \in ConfMaps } }

Replies(key) ==
    CASE key = "none" -> { BadJsonReply }
      [] key = "invalid" -> { ErrorReply(m) : m \in {{"401"}, {"authentication", "api key"}} }
      [] OTHER -> { JsonReply(b) : b \in Bodies } \cup { BadJsonReply }
                    \cup { ErrorReply(m) : m \in {{"rate", "limit"}, {"rate"}, {}} }

(***************************************************************************)
(* One run of the script (src/app.py): the variables of a session          *)
(***************************************************************************)
MAX_UPLOADS == 10

NewSession(email) ==
    [pc |-> "start", user_email |-> email, current_usage |-> 0, remaining |-> 0,
     stop |-> "", uploaded_files |-> <<>>, idx |-> 0, raw_text |-> <<>>,
     result |-> NoMap, confidence |-> NoMap, all_results |-> <<>>,
     extractions_this_session |-> 0]

\* an entry of the history: the operation, the document's index, its outcome
\* and how the outcome was shown to the user
Ev(op, idx, res, shown) == [op |-> op, idx |-> idx, res |-> res, shown |-> shown]

NoEnv == [groq_env |-> "none", groq_secret |-> "none",
          pytesseract |-> FALSE, tesseract |-> FALSE]

NoScope == [sessions |-> {}, docs |-> {}, replies |-> {}, envs |-> {}]

(***************************************************************************)
(* increment_upload_count, one store round trip per step                   *)
(***************************************************************************)
IdleFrame == [pc |-> "idle", email |-> <<>>, count |-> 0, current |-> 0, ret |-> 0]

IncStart(email, count) ==
    [pc |-> "read", email |-> Normalize(email), count |-> count, current |-> 0, ret |-> 0]

\* line 45: current = get_upload_count(email)
IncRead(s) ==
    /\ inc[s].pc = "read"
    /\ LET current == GetUploadCount(usage, inc[s].email)
       IN  inc' = [inc EXCEPT ![s].current = current,
                              ![s].pc = IF current = 0 THEN "exists" ELSE "update"]
    /\ UNCHANGED <<usage, incSum, events, fixedVars, harnessVars, sess>>

\* lines 47-55: select id where user_email = email
IncExists(s) ==
    /\ inc[s].pc = "exists"
    /\ inc' = [inc EXCEPT ![s].pc =
                  IF RowExists(usage, inc[s].email) THEN "update" ELSE "insert"]
    /\ UNCHANGED <<usage, incSum, events, fixedVars, harnessVars, sess>>

\* lines 57-61: insert, return count
IncInsert(s) ==
    /\ inc[s].pc = "insert"
    /\ IF emailUnique /\ RowExists(usage, inc[s].email)
       THEN /\ inc' = [inc EXCEPT ![s].pc = "raised"]
            /\ UNCHANGED <<usage, incSum, events>>
       ELSE /\ usage' = InsertRow(usage, inc[s].email, inc[s].count)
            /\ inc' = [inc EXCEPT ![s].pc = "returned", ![s].ret = inc[s].count]
            /\ incSum' = [incSum EXCEPT ![inc[s].email] = @ + inc[s].count]
            /\ events' = [events EXCEPT ![s] = Append(@, Ev("write", sess[s].idx, "insert", ""))]
    /\ UNCHANGED <<fixedVars, harnessVars, sess>>

\* lines 64-69: update with current + count, return it
IncUpdate(s) ==
    /\ inc[s].pc = "update"
    /\ LET new_count == NewCount(inc[s].current, inc[s].count)
       IN  /\ usage' = UpdateRows(usage, inc[s].email, new_count)
           /\ inc' = [inc EXCEPT ![s].pc = "returned", ![s].ret = new_count]
    /\ incSum' = [incSum EXCEPT ![inc[s].email] = @ + inc[s].count]
    /\ events' = [events EXCEPT ![s] = Append(@, Ev("write", sess[s].idx, "update", ""))]
    /\ UNCHANGED <<fixedVars, harnessVars, sess>>

InFlight(s) == inc[s].pc \in {"read", "exists", "insert", "update"}

(***************************************************************************)
(* SpecExtract: one call extract_invoice_fields(raw_text, api_key)         *)
(***************************************************************************)
NoExt == [api_key |-> "none", env_key |-> "none", reply |-> BadJsonReply,
          called |-> FALSE, out |-> Outcome("", "", NoMap)]

InitExtract ==
    /\ usage = <<>>
    /\ usage0 = <<>>
    /\ emailUnique = FALSE
    /\ inc = [s \in Sessions |-> IdleFrame]
    /\ incSum = [e \in Identities |-> 0]
    /\ calls = [s \in Sessions |-> 0]
    /\ seq = NoSeq
    /\ \E api_key \in KeyStates, env_key \in KeyStates :
         \E reply \in Replies(ResolveKey(api_key, env_key)) :
            ext = [NoExt EXCEPT !.api_key = api_key, !.env_key = env_key, !.reply = reply]
    /\ env = NoEnv
    /\ scope = NoScope
    /\ sess = [s \in Sessions |-> NewSession(<<>>)]
    /\ events = [s \in Sessions |-> <<>>]

ExtractCall ==
    /\ ~ext.called
    /\ ext' = [ext EXCEPT !.called = TRUE,
                          !.out = ExtractInvoiceFields(ext.api_key, ext.env_key, ext.reply)]
    /\ UNCHANGED <<usage, inc, incSum, events, fixedVars, calls, seq, sess>>

NextExtract == ExtractCall

SpecExtract == InitExtract /\ [][NextExtract]_vars

(***************************************************************************)
(* SpecDb: sessions calling increment_upload_count(email, count)           *)
(***************************************************************************)
InitDb ==
    /\ usage \in InitTables
    /\ usage0 = usage
    /\ emailUnique \in BOOLEAN
    /\ inc = [s \in Sessions |-> IdleFrame]
    /\ incSum = [e \in Identities |-> 0]
    /\ calls = [s \in Sessions |-> 0]
    /\ seq = NoSeq
    /\ ext = NoExt
    /\ env = NoEnv
    /\ scope = NoScope
    /\ sess = [s \in Sessions |-> NewSession(<<>>)]
    /\ events = [s \in Sessions |-> <<>>]

DbCall(s) ==
    /\ ~InFlight(s)
    /\ calls[s] < MaxCalls
    /\ \E email \in RawEmails, count \in 1..MaxCount :
          inc' = [inc EXCEPT ![s] = IncStart(email, count)]
    /\ calls' = [calls EXCEPT ![s] = @ + 1]
    /\ UNCHANGED <<usage, incSum, events, fixedVars, seq, ext, sess>>

NextDb ==
    \E s \in Sessions :
        \/ DbCall(s)
        \/ IncRead(s)
        \/ IncExists(s)
        \/ IncInsert(s)
        \/ IncUpdate(s)

SpecDb == InitDb /\ [][NextDb]_vars

(***************************************************************************)
(* SpecSeq: k calls increment(email, 1) beside one call increment(email, k)*)
(***************************************************************************)
InitSeq ==
    /\ usage = <<>>
    /\ usage0 = <<>>
    /\ emailUnique \in BOOLEAN
    /\ inc = [s \in Sessions |-> IdleFrame]
    /\ incSum = [e \in Identities |-> 0]
    /\ calls = [s \in Sessions |-> 0]
    /\ ext = NoExt
    /\ env = NoEnv
    /\ scope = NoScope
    /\ sess = [s \in Sessions |-> NewSession(<<>>)]
    /\ events = [s \in Sessions |-> <<>>]
    /\ \E t \in InitTables, email \in RawEmails, k \in 1..MaxK :
          seq = [email |-> email, k |-> k, tableA |-> t, doneA |-> 0, retA |-> 0,
                 tableB |-> t, doneB |-> 0, retB |-> 0]

SeqByOne ==
    /\ seq.doneA < seq.k
    /\ LET r == IncrementUploadCount(seq.tableA, seq.email, 1)
       IN  seq' = [seq EXCEPT !.tableA = r.table, !.retA = r.ret, !.doneA = @ + 1]
    /\ UNCHANGED <<usage, inc, incSum, events, fixedVars, calls, ext, sess>>

SeqByK ==
    /\ seq.doneB = 0
    /\ LET r == IncrementUploadCount(seq.tableB, seq.email, seq.k)
       IN  seq' = [seq EXCEPT !.tableB = r.table, !.retB = r.ret, !.doneB = 1]
    /\ UNCHANGED <<usage, inc, incSum, events, fixedVars, calls, ext, sess>>

NextSeq == SeqByOne \/ SeqByK

SpecSeq == InitSeq /\ [][NextSeq]_vars

(***************************************************************************)
(* Documents.  A page has the text of its text layer and the text OCR      *)
(* reads from its raster; "" is no text.  An image is one raster.          *)
(***************************************************************************)
Page(layer, scan) == [layer |-> layer, scan |-> scan]

Doc(name, type, pages) == [name |-> name, type |-> type, pages |-> pages]

InvPdf == Doc(JText(101), "application/pdf", <<Page("p1", "p1"), Page("", ""), Page("p3", "p3")>>)
ScanPdf == Doc(JText(102), "application/pdf", <<Page("", ""), Page("", "s2")>>)
BlankPdf == Doc(JText(103), "application/pdf", <<Page("", "")>>)
PhotoPng == Doc(JText(104), "image/png", <<Page("", "i1")>>)
BlankJpg == Doc(JText(105), "image/jpeg", <<Page("", "")>>)

Documents == { InvPdf, ScanPdf, BlankPdf, PhotoPng, BlankJpg }

(***************************************************************************)
(* Text extraction (src/app.py, lines 159-249)                             *)
(***************************************************************************)
TextOutcome(kind, text, hint) == [kind |-> kind, text |-> text, hint |-> hint]

\* the non-empty texts of the pages, in page order ("\n".join(text_parts))
RECURSIVE TextParts(_, _)
TextParts(pages, layer) ==
    IF pages = <<>> THEN <<>>
    ELSE LET t == IF layer THEN Head(pages).layer ELSE Head(pages).scan
         IN  (IF t # "" THEN <<t>> ELSE <<>>) \o TextParts(Tail(pages), layer)

\* _check_tesseract: pytesseract imports and the tesseract binary answers
CheckTesseract(e) == e.pytesseract /\ e.tesseract

\* _ocr_scanned_pdf: lines 196-197 import fitz and pytesseract before the check
\* (PyMuPDF is taken to be installed)
OcrScannedPdf(doc, e) ==
    IF ~e.pytesseract THEN TextOutcome("ImportError", <<>>, FALSE)
    ELSE IF ~CheckTesseract(e) THEN TextOutcome("EnvironmentError", <<>>, TRUE)
    ELSE IF TextParts(doc.pages, FALSE) = <<>> THEN TextOutcome("ValueError", <<>>, FALSE)
    ELSE TextOutcome("ok", TextParts(doc.pages, FALSE), FALSE)

ExtractTextFromPdf(doc, e) ==
    IF TextParts(doc.pages, TRUE) # <<>>
    THEN TextOutcome("ok", TextParts(doc.pages, TRUE), FALSE)
    ELSE OcrScannedPdf(doc, e)

\* extract_text_from_image: line 231 imports pytesseract before the check
ExtractTextFromImage(doc, e) ==
    IF ~e.pytesseract THEN TextOutcome("ImportError", <<>>, FALSE)
    ELSE IF ~CheckTesseract(e) THEN TextOutcome("EnvironmentError", <<>>, TRUE)
    ELSE IF doc.pages[1].scan = "" THEN TextOutcome("ValueError", <<>>, FALSE)
    ELSE TextOutcome("ok", <<doc.pages[1].scan>>, FALSE)

\* lines 344-348
ExtractText(doc, e) ==
    IF doc.type = "application/pdf"
    THEN ExtractTextFromPdf(doc, e)
    ELSE ExtractTextFromImage(doc, e)

\* lines 356-359: which handler shows the failure
TextShown(out) ==
    IF out.kind \in {"ValueError", "EnvironmentError"}
    THEN (IF out.hint THEN "message_with_remediation" ELSE "message")
    ELSE "generic"

(***************************************************************************)
(* The display and the aggregate row (src/app.py, lines 256-274, 369-396)  *)
(***************************************************************************)
\* int(score): the exception it raises, or "ok"
IntError(score) ==
    CASE score.t \in {"int", "float", "numstr"} -> "ok"
      [] score.t = "text" -> "ValueError"
      [] OTHER -> "TypeError"

\* the exceptions _render_confidence may raise on a mapping (the first bad
\* entry in the mapping's own order raises)
RenderErrors(confidence) ==
    { IntError(confidence[k]) : k \in DOMAIN confidence } \ {"ok"}

\* line 370: result.pop("confidence", {})
PopConfidence(record) ==
    IF "confidence" \in DOMAIN record THEN record["confidence"].m ELSE NoMap

WithoutConfidence(record) == [k \in DOMAIN record \ {"confidence"} |-> record[k]]

\* f"confidence_{k}"
ConfCol(k) ==
    CASE k = "vendor_name" -> "confidence_vendor_name"
      [] k = "vendor_gstin" -> "confidence_vendor_gstin"
      [] k = "invoice_number" -> "confidence_invoice_number"
      [] k = "invoice_date" -> "confidence_invoice_date"
      [] k = "total_taxable_value" -> "confidence_total_taxable_value"
      [] k = "total_gst_amount" -> "confidence_total_gst_amount"
      [] k = "grand_total" -> "confidence_grand_total"
      [] k = "notes" -> "confidence_notes"

\* lines 392-395: {"source_file": file_name, **result}, then the confidence columns
FlatRow(file_name, result, confidence) ==
    LET cols == { ConfCol(c) : c \in DOMAIN confidence }
    IN  [k \in {"source_file"} \cup DOMAIN result \cup cols |->
            IF k \in cols
            THEN confidence[CHOOSE c \in DOMAIN confidence : ConfCol(c) = k]
            ELSE IF k \in DOMAIN result THEN result[k] ELSE file_name]

(***************************************************************************)
(* The run of the script (src/app.py, lines 104-120 and 287-435)           *)
(***************************************************************************)
\* lines 115-120: the environment variable, else the secret
ApiKey(e) == IF e.groq_env # "none" THEN e.groq_env ELSE e.groq_secret

\* line 305: total > remaining stops the run
BatchRejectedAbove(total, remaining) == total > remaining + 1

BatchRejected(total, remaining) == total > remaining

Batches == UNION { [1..n -> scope.docs] : n \in 1..MaxBatch }

CurrentDoc(r) == r.uploaded_files[r.idx + 1]

\* the for loop goes on to the next document, or ends (lines 328, 403)
AbortBatch(r) == [r EXCEPT !.pc = "stopped", !.stop = "aborted"]

NextDocument(r) ==
    IF r.idx + 1 < Len(r.uploaded_files)
    THEN [r EXCEPT !.pc = "text", !.idx = @ + 1, !.raw_text = <<>>,
                   !.result = NoMap, !.confidence = NoMap]
    ELSE [r EXCEPT !.pc = "done", !.raw_text = <<>>, !.result = NoMap,
                   !.confidence = NoMap]

\* an except clause of the loop body shows the error; the loop goes on
AfterFailure(r) == NextDocument(r)

Log(s, es) == events' = [events EXCEPT ![s] = @ \o es]

\* lines 104-108: the script starts, reads the counter
Run(s) ==
    /\ s \in scope.sessions
    /\ sess[s].pc = "start"
    /\ LET usage_now == GetUploadCount(usage, sess[s].user_email)
       IN  sess' = [sess EXCEPT ![s] =
                       [NewSession(sess[s].user_email) EXCEPT
                           !.pc = "gate",
                           !.current_usage = usage_now,
                           !.remaining = MAX_UPLOADS - usage_now]]
    /\ events' = [events EXCEPT ![s] = <<>>]
    /\ UNCHANGED <<usage, inc, incSum, fixedVars, harnessVars>>

\* lines 287-293
HardBlock(s) ==
    /\ sess[s].pc = "gate"
    /\ sess[s].remaining <= 0
    /\ sess' = [sess EXCEPT ![s].pc = "stopped", ![s].stop = "limit"]
    /\ UNCHANGED <<usage, inc, incSum, events, fixedVars, harnessVars>>

\* lines 302-311
RejectBatch(s) ==
    /\ sess[s].pc = "gate"
    /\ sess[s].remaining > 0
    /\ \E files \in Batches :
          /\ BatchRejected(Len(files), sess[s].remaining)
          /\ sess' = [sess EXCEPT ![s].pc = "stopped", ![s].stop = "quota",
                                  ![s].uploaded_files = files]
    /\ UNCHANGED <<usage, inc, incSum, events, fixedVars, harnessVars>>

\* lines 313-319
NoApiKey(s) ==
    /\ sess[s].pc = "gate"
    /\ sess[s].remaining > 0
    /\ ApiKey(env) = "none"
    /\ \E files \in Batches :
          /\ ~BatchRejected(Len(files), sess[s].remaining)
          /\ sess' = [sess EXCEPT ![s].pc = "stopped", ![s].stop = "nokey",
                                  ![s].uploaded_files = files]
    /\ UNCHANGED <<usage, inc, incSum, events, fixedVars, harnessVars>>

\* lines 321-328
StartBatch(s) ==
    /\ sess[s].pc = "gate"
    /\ sess[s].remaining > 0
    /\ ApiKey(env) # "none"
    /\ \E files \in Batches :
          /\ ~BatchRejected(Len(files), sess[s].remaining)
          /\ sess' = [sess EXCEPT ![s].pc = "text", ![s].uploaded_files = files,
                                  ![s].idx = 0]
    /\ UNCHANGED <<usage, inc, incSum, events, fixedVars, harnessVars>>

\* lines 339-355: the text is extracted
TextExtracted(s) ==
    /\ sess[s].pc = "text"
    /\ LET out == ExtractText(CurrentDoc(sess[s]), env)
       IN  /\ out.kind = "ok"
           /\ sess' = [sess EXCEPT ![s].pc = "ai", ![s].raw_text = out.text]
           /\ Log(s, <<Ev("text", sess[s].idx, "ok", "")>>)
    /\ UNCHANGED <<usage, inc, incSum, fixedVars, harnessVars>>

\* lines 356-362: text extraction raises; raw_text stays None
TextFailed(s) ==
    /\ sess[s].pc = "text"
    /\ LET out == ExtractText(CurrentDoc(sess[s]), env)
       IN  /\ out.kind # "ok"
           /\ sess' = [sess EXCEPT ![s] = AfterFailure(sess[s])]
           /\ Log(s, <<Ev("text", sess[s].idx, out.kind, TextShown(out))>>)
    /\ UNCHANGED <<usage, inc, incSum, fixedVars, harnessVars>>

\* the replies the provider may give to this call
BatchReplies ==
    CASE ApiKey(env) = "invalid" -> { ErrorReply({"401"}) }
      [] OTHER -> scope.replies

\* lines 366-367, 398-401: extract_invoice_fields raises
FieldsFailed(s) ==
    /\ sess[s].pc = "ai"
    /\ \E reply \in BatchReplies :
          LET out == ExtractInvoiceFields(ApiKey(env), env.groq_env, reply)
          IN  /\ out.kind # "ok"
              /\ sess' = [sess EXCEPT ![s] = AfterFailure(sess[s])]
              /\ Log(s, <<Ev("ai", sess[s].idx, out.why, "message")>>)
    /\ UNCHANGED <<usage, inc, incSum, fixedVars, harnessVars>>

\* lines 366-375, 398-401: a record is returned, _render_confidence raises
RenderFailed(s) ==
    /\ sess[s].pc = "ai"
    /\ \E reply \in BatchReplies :
          LET out == ExtractInvoiceFields(ApiKey(env), env.groq_env, reply)
              confidence == PopConfidence(out.record)
          IN  /\ out.kind = "ok"
              /\ \E err \in RenderErrors(confidence) :
                    /\ sess' = [sess EXCEPT ![s] =
                                   AfterFailure([sess[s] EXCEPT
                                       !.result = WithoutConfidence(out.record),
                                       !.confidence = confidence])]
                    /\ Log(s, <<Ev("ai", sess[s].idx, "ok", ""),
                                Ev("render", sess[s].idx, err,
                                   IF err = "ValueError" THEN "message" ELSE "generic")>>)
    /\ UNCHANGED <<usage, inc, incSum, fixedVars, harnessVars>>

\* lines 366-388: a record is returned and shown; increment_upload_count is called
FieldsExtracted(s) ==
    /\ sess[s].pc = "ai"
    /\ \E reply \in BatchReplies :
          LET out == ExtractInvoiceFields(ApiKey(env), env.groq_env, reply)
              confidence == PopConfidence(out.record)
          IN  /\ out.kind = "ok"
              /\ RenderErrors(confidence) = {}
              /\ sess' = [sess EXCEPT ![s].pc = "incr",
                                      ![s].result = WithoutConfidence(out.record),
                                      ![s].confidence = confidence]
    /\ inc' = [inc EXCEPT ![s] = IncStart(sess[s].user_email, 1)]
    /\ Log(s, <<Ev("ai", sess[s].idx, "ok", ""), Ev("inc", sess[s].idx, "call", "")>>)
    /\ UNCHANGED <<usage, incSum, fixedVars, harnessVars>>

\* lines 389-396: the call returned; the row is appended
RowAppended(s) ==
    /\ sess[s].pc = "incr"
    /\ inc[s].pc = "returned"
    /\ LET flat == FlatRow(CurrentDoc(sess[s]).name, sess[s].result, sess[s].confidence)
       IN  sess' = [sess EXCEPT ![s] =
                       NextDocument([sess[s] EXCEPT
                           !.extractions_this_session = @ + 1,
                           !.all_results = Append(@, flat)])]
    /\ inc' = [inc EXCEPT ![s] = IdleFrame]
    /\ Log(s, <<Ev("row", sess[s].idx, "appended", "")>>)
    /\ UNCHANGED <<usage, incSum, fixedVars, harnessVars>>

\* lines 388, 400-401: the call raised
IncrementFailed(s) ==
    /\ sess[s].pc = "incr"
    /\ inc[s].pc = "raised"
    /\ sess' = [sess EXCEPT ![s] = AfterFailure(sess[s])]
    /\ inc' = [inc EXCEPT ![s] = IdleFrame]
    /\ Log(s, <<Ev("inc", sess[s].idx, "raised", "generic")>>)
    /\ UNCHANGED <<usage, incSum, fixedVars, harnessVars>>

(***************************************************************************)
(* Spec: one session with every document and reply, or two sessions at     *)
(* once with a few.  A session is one run of the script on one batch; a    *)
(* later run of the same browser session is a run from a later table.      *)
(***************************************************************************)
GoodBody == Body({}, {}, TRUE, JMap([k \in ExpectedSet |-> JInt(85)]))
EmptyBody == Body(ExpectedSet, {}, FALSE, JNull)
NullConfBody ==
    Body({}, {}, TRUE,
         JMap([k \in ExpectedSet |-> IF k = "vendor_name" THEN JNull ELSE JInt(85)]))
TextConfBody == Body({"invoice_date"}, {}, TRUE, JMap([k \in ExpectedSet |-> JText(2)]))
OddBody ==
    Body({}, {"source_file"}, TRUE,
         JMap([k \in ExpectedSet \cup {"notes"} |->
                  IF k = "grand_total" THEN JInt(150) ELSE JFloat(855)]))

FullReplies ==
    { JsonReply(b) : b \in {GoodBody, EmptyBody, NullConfBody, TextConfBody, OddBody} }
    \cup { BadJsonReply, ErrorReply({"rate", "limit"}) }

Envs ==
    { [groq_env |-> k[1], groq_secret |-> k[2], pytesseract |-> o[1], tesseract |-> o[2]] :
        k \in {<<"none", "none">>, <<"none", "valid">>, <<"invalid", "valid">>},
        o \in {<<FALSE, FALSE>>, <<TRUE, FALSE>>, <<TRUE, TRUE>>} }

GoodEnv == [groq_env |-> "valid", groq_secret |-> "none",
            pytesseract |-> TRUE, tesseract |-> TRUE]

Scopes ==
    { [sessions |-> {1}, docs |-> Documents, replies |-> FullReplies, envs |-> Envs],
      [sessions |-> {1, 2}, docs |-> {InvPdf, BlankJpg},
       replies |-> {JsonReply(GoodBody)}, envs |-> {GoodEnv}] }

\* the identity's row at the start: none, or a count up to the ceiling
BatchTables ==
    {<<>>} \cup { <<Row(<<"a">>, c)>> : c \in {0, MAX_UPLOADS - 2, MAX_UPLOADS - 1, MAX_UPLOADS} }

Init ==
    /\ scope \in Scopes
    /\ env \in scope.envs
    /\ usage \in BatchTables
    /\ usage0 = usage
    /\ emailUnique \in (IF Cardinality(scope.sessions) > 1 THEN BOOLEAN ELSE {TRUE})
    /\ inc = [s \in Sessions |-> IdleFrame]
    /\ incSum = [e \in Identities |-> 0]
    /\ calls = [s \in Sessions |-> 0]
    /\ seq = NoSeq
    /\ ext = NoExt
    /\ \E other \in {<<"a">>, <<" ", "b">>} :
          sess = [s \in Sessions |->
                     NewSession(Normalize(IF s = 1 THEN <<"A", " ">> ELSE other))]
    /\ events = [s \in Sessions |-> <<>>]

Next ==
    \E s \in Sessions :
        \/ Run(s)
        \/ HardBlock(s)
        \/ RejectBatch(s)
        \/ NoApiKey(s)
        \/ StartBatch(s)
        \/ TextExtracted(s)
        \/ TextFailed(s)
        \/ FieldsFailed(s)
        \/ RenderFailed(s)
        \/ FieldsExtracted(s)
        \/ IncRead(s)
        \/ IncExists(s)
        \/ IncInsert(s)
        \/ IncUpdate(s)
        \/ RowAppended(s)
        \/ IncrementFailed(s)

Spec == Init /\ [][Next]_vars

(***************************************************************************)
(* Claims                                                                  *)
(***************************************************************************)

\* C1: concurrent increments for one identity lose no update: whenever no
\* call is in flight, every identity's stored counter is its initial value
\* plus the sum of the 'count' arguments of the calls that returned.
C1_NoLostUpdate ==
    (\A s \in Sessions : ~InFlight(s)) =>
        \A e \in Identities :
            GetUploadCount(usage, e) = GetUploadCount(usage0, e) + incSum[e]

\* C8: k sequential calls increment(identity, 1) leave the same stored
\* table, and the last call returns the same total, as one call
\* increment(identity, k).
C8_AccountingEquivalence ==
    (seq.doneA = seq.k /\ seq.doneB = 1) =>
        /\ \A e \in Identities :
              GetUploadCount(seq.tableA, e) = GetUploadCount(seq.tableB, e)
        /\ seq.retA = seq.retB

C8_Witness ==
    /\ seq.k >= 2
    /\ seq.doneA = seq.k
    /\ seq.doneB = 1
    /\ seq.retB = seq.k

\* C6: every record extract_invoice_fields returns holds the seven field keys
\* and a "confidence" mapping holding the seven field keys; a field the reply
\* lacks is null, a confidence entry the reply lacks is 0, and every key the
\* reply supplied keeps its value (a "confidence" that is no mapping excepted,
\* which is replaced by a mapping).
C6_RecordComplete ==
    (ext.called /\ ext.out.kind = "ok") =>
        LET body == ext.reply.body
            rec == ext.out.record
            given == IF "confidence" \in DOMAIN body /\ body["confidence"].t = "map"
                     THEN body["confidence"].m
                     ELSE NoMap
        IN  /\ ExpectedSet \cup {"confidence"} \subseteq DOMAIN rec
            /\ rec["confidence"].t = "map"
            /\ ExpectedSet \subseteq DOMAIN rec["confidence"].m
            /\ \A k \in ExpectedSet \ DOMAIN body : rec[k] = JNull
            /\ \A k \in ExpectedSet \ DOMAIN given : rec["confidence"].m[k] = JInt(0)
            /\ \A k \in DOMAIN body \ {"confidence"} : rec[k] = body[k]
            /\ \A k \in DOMAIN given : rec["confidence"].m[k] = given[k]

C6_Witness ==
    /\ ext.called
    /\ ext.out.kind = "ok"
    /\ "vendor_gstin" \notin DOMAIN ext.reply.body
    /\ "confidence" \in DOMAIN ext.reply.body
    /\ ext.reply.body["confidence"].t = "map"
    /\ "grand_total" \notin DOMAIN ext.reply.body["confidence"].m
    /\ "vendor_name" \in DOMAIN ext.reply.body["confidence"].m
    /\ ext.out.record["vendor_gstin"] = JNull
    /\ ext.out.record["confidence"].m["grand_total"] = JInt(0)

\* C7: every one of the seven confidence values of a record that
\* extract_invoice_fields returns is an integer in [0,100].
C7_ConfidenceInRange ==
    (ext.called /\ ext.out.kind = "ok") =>
        \A k \in ExpectedSet :
            LET c == ext.out.record["confidence"].m[k]
            IN  c.t = "int" /\ c.v >= 0 /\ c.v <= 100

\* C9: the stored counter of an identity never takes a value lower than one
\* it held before, whatever the interleaving of the sessions' steps.
C9_CounterMonotonic ==
    [][\A e \in Identities : GetUploadCount(usage', e) >= GetUploadCount(usage, e)]_vars

(***************************************************************************)
(* Claims about the batch                                                  *)
(***************************************************************************)
EventIndexes(s) == 1..Len(events[s])

CountEvents(s, op, res, idx) ==
    Cardinality({ j \in EventIndexes(s) :
        events[s][j].op = op /\ events[s][j].res = res /\ events[s][j].idx = idx })

\* the loop has left document idx behind
DocumentFinished(s, idx) ==
    \/ sess[s].pc \in {"done", "stopped"}
    \/ sess[s].idx > idx

\* C2: a batch of N documents with N > remaining is rejected in full: the run
\* stops with nothing extracted, no field-extraction call, no call of
\* increment, no write to the store and no row.
C2_OversizedBatchRejected ==
    \A s \in scope.sessions :
        (sess[s].pc # "start" /\ Len(sess[s].uploaded_files) > sess[s].remaining) =>
            /\ sess[s].pc = "stopped"
            /\ events[s] = <<>>
            /\ inc[s].pc = "idle"
            /\ sess[s].all_results = <<>>
            /\ sess[s].extractions_this_session = 0
            /\ (scope.sessions = {s} => usage = usage0)

C2_Witness ==
    \E s \in scope.sessions :
        /\ sess[s].pc = "stopped"
        /\ sess[s].stop = "quota"
        /\ sess[s].current_usage = 9
        /\ Len(sess[s].uploaded_files) = 2
        /\ GetUploadCount(usage, sess[s].user_email) = 9

\* C3: for every document whose field extraction returned a record, by the
\* time the loop has left the document increment was called exactly once for
\* it and its row was appended.
C3_SuccessBilledAndAppended ==
    \A s \in scope.sessions :
        \A j \in EventIndexes(s) :
            LET e == events[s][j]
            IN  (e.op = "ai" /\ e.res = "ok" /\ DocumentFinished(s, e.idx)) =>
                    /\ CountEvents(s, "inc", "call", e.idx) = 1
                    /\ CountEvents(s, "row", "appended", e.idx) = 1

\* C4: once field extraction of a document fails with a missing or invalid
\* credential, nothing is attempted for any later document of the batch.
C4_CredentialErrorAbortsBatch ==
    \A s \in scope.sessions :
        \A j \in EventIndexes(s) :
            LET e == events[s][j]
            IN  (e.op = "ai" /\ e.res \in {"invalid_key", "missing_key"}) =>
                    \A n \in EventIndexes(s) : events[s][n].idx <= e.idx

\* a failure of one document: its text extraction raised, or the provider
\* was rate limited, failed, or replied with content that is no JSON
DocumentFailure(e) ==
    \/ e.op = "text" /\ e.res # "ok"
    \/ e.op = "ai" /\ e.res \in {"rate_limit", "bad_json", "api_failed"}

\* C5: a document-scoped failure does not abort the batch and consumes no
\* quota: no call of increment, no write and no row for that document, no row
\* collected so far is lost, and at the end of the run every later document
\* has been taken up.
C5_DocumentFailureIsLocal ==
    \A s \in scope.sessions :
        \A j \in EventIndexes(s) :
            LET e == events[s][j]
            IN  DocumentFailure(e) =>
                    /\ sess[s].pc # "stopped"
                    /\ \A n \in EventIndexes(s) :
                          events[s][n].idx = e.idx =>
                              events[s][n].op \notin {"inc", "write", "row"}
                    /\ Len(sess[s].all_results)
                          = Cardinality({ n \in EventIndexes(s) : events[s][n].op = "row" })
                    /\ Cardinality({ n \in 1..j : events[s][n].op = "row" })
                          <= Len(sess[s].all_results)
                    /\ sess[s].extractions_this_session = Len(sess[s].all_results)
                    /\ sess[s].pc = "done" =>
                          \A i \in (e.idx + 1)..(Len(sess[s].uploaded_files) - 1) :
                              \E n \in EventIndexes(s) :
                                  events[s][n].op = "text" /\ events[s][n].idx = i

C5_Witness ==
    \E s \in scope.sessions :
        /\ sess[s].pc = "done"
        /\ Len(sess[s].uploaded_files) = 2
        /\ Len(sess[s].all_results) = 1
        /\ \E j \in EventIndexes(s) :
              /\ events[s][j].op = "row"
              /\ events[s][j].idx = 0
        /\ \E j \in EventIndexes(s) :
              /\ events[s][j].op = "text"
              /\ events[s][j].idx = 1
              /\ events[s][j].res = "ValueError"

\* OCR is needed: an image, or a PDF no page of which has a text layer
NeedsOcr(doc) ==
    doc.type # "application/pdf" \/ TextParts(doc.pages, TRUE) = <<>>

OcrEngineAvailable == env.pytesseract /\ env.tesseract

\* C10: when OCR is needed and the OCR engine is unavailable, text extraction
\* fails with the OCR-unavailable error and its remediation text is shown;
\* when OCR runs and recovers no text it fails with the no-text-found error,
\* shown without remediation; neither is shown as a generic failure.
C10_OcrUnavailableDistinct ==
    \A s \in scope.sessions :
        \A j \in EventIndexes(s) :
            LET e == events[s][j]
                doc == sess[s].uploaded_files[e.idx + 1]
            IN  (e.op = "text" /\ NeedsOcr(doc)) =>
                    /\ ~OcrEngineAvailable =>
                          /\ e.res = "EnvironmentError"
                          /\ e.shown = "message_with_remediation"
                    /\ (OcrEngineAvailable /\ TextParts(doc.pages, FALSE) = <<>>) =>
                          /\ e.res = "ValueError"
                          /\ e.shown = "message"

\* C11: the quota ceiling holds in every reachable state: no identity's
\* stored usage counter exceeds MAX_UPLOADS, also when several sessions of one
\* identity run batches admitted against their own earlier read.
C11_CeilingHolds ==
    \A e \in Identities : GetUploadCount(usage, e) <= MAX_UPLOADS

\* the indexes of the documents whose row was appended, in the order of appending
RowDocuments(s) ==
    LET rows == SelectSeq(events[s], LAMBDA e : e.op = "row")
    IN  [n \in 1..Len(rows) |-> rows[n].idx]

\* C12: the rows of the summary are the appended documents' rows in input
\* order, and the source_file of each row is the display name of the uploaded
\* document it came from, whatever keys the model returned.
C12_SourceFileIsDocumentName ==
    \A s \in scope.sessions :
        LET docs == RowDocuments(s)
        IN  /\ Len(sess[s].all_results) = Len(docs)
            /\ \A n \in 1..Len(docs) :
                  /\ n > 1 => docs[n - 1] < docs[n]
                  /\ sess[s].all_results[n]["source_file"]
                        = sess[s].uploaded_files[docs[n] + 1].name

====
